---- MODULE Spec2Model ----
(***************************************************************************)
(* Model of watapico (src/watapico.c): a microcontroller that impersonates *)
(* a cartridge ROM on the console bus.  main() loads the persisted ROM     *)
(* index from the last flash sector, copies that catalog entry into the    *)
(* 64 KiB buffer `rom`, rewrites the settings record and enters            *)
(* handle_bus(), which serves one byte per read strobe and, while the menu *)
(* ROM is active, switches ROM when an address of the command window is    *)
(* read.  The console (strobe and address lines) and the power supply are  *)
(* the environment.                                                        *)
(***************************************************************************)
EXTENDS Integers, Sequences, FiniteSets, TLC

\* ---------------------------------------------------------------- constants

\* #define ADDR_MASK 0x1FFFF: the 17 address lines A0..A16
ADDR_MASK == 131071

\* the data lines D0..D7 are GPIO 17..24: DATA_MASK is 0xFF << DATA_SHIFT
DATA_SHIFT == 17

RD_PIN == 29

PWR_ON_PIN == 25

\* sizeof(rom)
ROM_SIZE == 65536

\* initial value of ROM_MASK (0xFFFF)
ROM_MASK_INIT == 65535

MENU_ROM == 0

\* SETTINGS_MAGIC 0x57544150, "WTAP": its upper and lower 16 bits
SETTINGS_MAGIC_HI == 22356

SETTINGS_MAGIC_LO == 16720

\* 16 bits of erased flash, and of the 0xFF-filled page buffer
ERASED_HALF == 65535

\* the command window 0x1000..0x10FF of handle_bus
CMD_FIRST == 4096

CMD_LAST == 4351

\* rom[0x1100] and &rom[0x1101] of main
DIR_COUNT_ADDR == 4352

DIR_ENTRIES_ADDR == 4353

\* ------------------------------------------------------------- bit helpers

RECURSIVE Pow2(_)
Pow2(n) == IF n = 0 THEN 1 ELSE 2 * Pow2(n - 1)

\* C's & on non-negative integers
RECURSIVE BitAnd(_, _)
BitAnd(x, y) ==
    IF x = 0 \/ y = 0 THEN 0
    ELSE (IF x % 2 = 1 /\ y % 2 = 1 THEN 1 ELSE 0) + 2 * BitAnd(x \div 2, y \div 2)

\* C's | on non-negative integers
RECURSIVE BitOr(_, _)
BitOr(x, y) ==
    IF x = 0 THEN y
    ELSE IF y = 0 THEN x
    ELSE (IF x % 2 = 1 \/ y % 2 = 1 THEN 1 ELSE 0) + 2 * BitOr(x \div 2, y \div 2)

DATA_MASK == 255 * Pow2(DATA_SHIFT)

READ_MASK == Pow2(RD_PIN)

PWR_ON_MASK == Pow2(PWR_ON_PIN)

\* ------------------------------------------------- the catalog (roms/roms.h)

\* number of catalog entries; entry 0 is the menu
ROM_COUNT == 3

\* sizeof(RomEntry): a 4-byte data reference, a 4-byte size, a 2-byte mask
\* and 2 bytes of padding
ENTRY_SIZE == 12

\* rom_entries[]: size and mask of every image; data is named by the index
rom_entries ==
    [i \in 0..(ROM_COUNT - 1) |->
        CASE i = 0 -> [kind |-> "data", id |-> 0, size |-> 32768, mask |-> 32767]
          [] i % 2 = 1 -> [kind |-> "data", id |-> i, size |-> 16384, mask |-> 16383]
          [] OTHER -> [kind |-> "data", id |-> i, size |-> 65536, mask |-> 65535]]

\* rom_entries[i].data[off]
RomData(i, off) == (off * 7 + (off \div 256) * 3 + i * 41 + 5) % 256

\* what an index outside the table can make get_rom_by_index hand back: the
\* table has no entry there, so size, mask and bytes are whatever lies behind
OutOfRangeEntries ==
    { [kind |-> "oob", id |-> g, size |-> s, mask |-> m] :
        g \in {0, 255}, s \in {0, ROM_SIZE}, m \in {0, 65535} }

\* get_rom_by_index(i): the entries the call can return
get_rom_by_index(i) ==
    IF i < ROM_COUNT THEN {rom_entries[i]} ELSE OutOfRangeEntries

\* little-endian byte k of a word
ByteOf(word, k) == (word \div Pow2(8 * k)) % 256

\* byte `off` of the rom_entries array as it lies in memory
EntriesByte(off) ==
    LET e == rom_entries[off \div ENTRY_SIZE]
        k == off % ENTRY_SIZE
    IN  IF k < 4 THEN ByteOf(e.id, k)
        ELSE IF k < 8 THEN ByteOf(e.size, k - 4)
        ELSE IF k < 10 THEN ByteOf(e.mask, k - 8)
        ELSE 0

\* ------------------------------------------------------- the buffer `rom`
\* The 65536 bytes are kept as a sequence of extents [lo, hi) in address
\* order, each naming what was copied there and the address its source
\* starts at; Rom(r, a) is the byte at address a.

Extent(lo, hi, kind, id) ==
    [lo |-> lo, hi |-> hi, kind |-> kind, id |-> id, base |-> lo]

\* uint8_t rom[65536], in .bss: zero after reset
RomReset == << Extent(0, ROM_SIZE, "bss", 0) >>

SrcByte(kind, id, off) ==
    CASE kind = "bss" -> 0
      [] kind = "data" -> RomData(id, off)
      [] kind = "count" -> ROM_COUNT - 1
      [] kind = "dir" -> EntriesByte(off)
      [] OTHER -> (id + off) % 256

Rom(r, a) ==
    LET hit == {t \in {r[i] : i \in 1..Len(r)} : t.lo <= a /\ a < t.hi}
    IN  IF hit = {} THEN 255
        ELSE LET t == CHOOSE t \in hit : TRUE
             IN  SrcByte(t.kind, t.id, a - t.base)

\* memcpy / store into rom: the bytes of extent s replace what was there
Overwrite(r, s) ==
    IF s.hi <= s.lo THEN r
    ELSE
      LET before == SelectSeq(r, LAMBDA t : t.lo < s.lo)
          after == SelectSeq(r, LAMBDA t : t.hi > s.hi)
          cutB == [i \in 1..Len(before) |->
                     [before[i] EXCEPT !.hi = IF @ > s.lo THEN s.lo ELSE @]]
          cutA == [i \in 1..Len(after) |->
                     [after[i] EXCEPT !.lo = IF @ < s.hi THEN s.hi ELSE @]]
      IN  cutB \o << s >> \o cutA

\* memcpy(rom, rom_entry->data, rom_entry->size)
MemcpyEntry(r, e) == Overwrite(r, Extent(0, e.size, e.kind, e.id))

\* rom[0x1100] = ROM_COUNT - 1; memcpy(&rom[0x1101], rom_entries, ...)
InjectDirectory(r) ==
    Overwrite(Overwrite(r, Extent(DIR_COUNT_ADDR, DIR_COUNT_ADDR + 1, "count", 0)),
              Extent(DIR_ENTRIES_ADDR, DIR_ENTRIES_ADDR + ENTRY_SIZE * ROM_COUNT, "dir", 0))

\* ------------------------------------------------------ persistent storage

\* A uint32_t of the settings page is kept as its two 16-bit halves.
Word(n) == [hi |-> n \div 65536, lo |-> n % 65536]

SETTINGS_MAGIC == [hi |-> SETTINGS_MAGIC_HI, lo |-> SETTINGS_MAGIC_LO]

ERASED_WORD == [hi |-> ERASED_HALF, lo |-> ERASED_HALF]

\* w < n as unsigned 32-bit numbers, for n up to 65536
WordLess(w, n) == w.hi = 0 /\ w.lo < n

\* mutant: the magic is not compared
load_ignoring_magic(page) ==
    IF WordLess(page.rom_index, ROM_COUNT) THEN page.rom_index.lo ELSE 0

\* mutant: the index is not compared with ROM_COUNT
load_unchecked_index(page) ==
    IF page.magic = SETTINGS_MAGIC THEN page.rom_index.lo ELSE 0

\* load_rom_index_from_flash(): page is the settings page as mapped at
\* SETTINGS_XIP_ADDR
load_rom_index_from_flash(page) ==
    IF page.magic = SETTINGS_MAGIC /\ WordLess(page.rom_index, ROM_COUNT)
    THEN page.rom_index.lo
    ELSE 0

\* the words of SettingsPage that the program reads
PageWords == {"magic", "rom_index"}

\* flash_range_erase leaves every bit of the sector set
ErasedPage == [magic |-> ERASED_WORD, rom_index |-> ERASED_WORD]

\* page_buffer after the memset and the two stores of save_rom_index_to_flash
PagePayload(idx) == [magic |-> SETTINGS_MAGIC, rom_index |-> Word(idx)]

\* programming a word of NOR flash can only clear bits
ProgramWord(old, new) ==
    [hi |-> BitAnd(old.hi, new.hi), lo |-> BitAnd(old.lo, new.lo)]

\* ------------------------------------------------------------------- state

VARIABLES
    pc,            \* position of the single thread of control
    retpc,         \* where save_rom_index_to_flash returns to
    flash,         \* the settings page in the last flash sector
    rom,           \* uint8_t rom[65536]
    ROM_MASK,      \* uint16_t ROM_MASK
    current_rom,   \* uint32_t current_rom
    address,       \* handle_bus: const uint32_t address
    data,          \* handle_bus: const uint32_t data
    rom_index,     \* save_rom_index_to_flash: the parameter
    page_buffer,   \* save_rom_index_to_flash: static page_buffer
    erased,        \* words of the page flash_range_erase has erased so far
    programmed,    \* words of the page flash_range_program has written so far
    irq,           \* TRUE while interrupts are enabled
    ints,          \* save_rom_index_to_flash: const uint32_t ints
    dataDir,       \* direction of the data pins D0..D7
    pwrDir,        \* direction of PWR_ON_PIN
    gpioOut,       \* the GPIO output register
    rd,            \* level of the /RD line, driven by the console
    busAddr,       \* value of the address lines A0..A16, driven by the console
    busAtSample,   \* history: address lines when handle_bus sampled them
    sel,           \* history: low byte of the last command-window address read
                   \* from the menu in this power-up, or -1
    chosen,        \* history: sel of the last read whose handling completed, if
                   \* it names a game 1..ROM_COUNT-1 and there was no other ROM
                   \* switch and no cut write since, or -1
    rewritten,     \* history: the record was erased again after that selection
    cutInWrite,    \* history: the last power loss hit a started, unfinished write
    idle,          \* history: /RD has been high ever since the loop was entered
    selects,       \* history: ROM switches of handle_bus in this power-up
    saves,         \* history: saves that have returned in this power-up
    pulseWrites,   \* history: saves handle_bus has called for the read pulse it
                   \* sampled last
    pulseOver,     \* history: the console has changed /RD or the address lines
                   \* since the loop last sampled them
    irqAtCall      \* history: irq when save_rom_index_to_flash was last called

vars == << pc, retpc, flash, rom, ROM_MASK, current_rom, address, data, rom_index,
           page_buffer, erased, programmed, irq, ints, dataDir, pwrDir, gpioOut, rd,
           busAddr, busAtSample, sel, chosen, rewritten, cutInWrite, idle,
           selects, saves, pulseWrites, pulseOver, irqAtCall >>

prog == << pc, retpc, flash, rom, ROM_MASK, current_rom, address, data, rom_index,
           page_buffer, erased, programmed, irq, ints, dataDir, pwrDir, gpioOut >>

hist == << busAtSample, sel, chosen, rewritten, cutInWrite, idle >>

counts == << selects, saves, pulseWrites, pulseOver, irqAtCall >>

\* the history counters stop counting at MaxCount
MaxCount == 2

UpTo(n, max) == IF n < max THEN n + 1 ELSE max

\* values the console puts on the address lines: around the command window,
\* the directory, the mirrors of the smaller images and bit 16
BusAddrs == {0, 4095, 4096, 4097, 4098, 4099, 4351, 4352, 4353, 16385, 36866, 69633, 131071}

\* a magic that is neither the sentinel nor erased flash
BAD_MAGIC == [hi |-> SETTINGS_MAGIC_HI, lo |-> SETTINGS_MAGIC_LO + 1]

\* contents the settings page can have when power is first applied
InitFlash ==
    [magic : {SETTINGS_MAGIC, ERASED_WORD, BAD_MAGIC},
     rom_index : {Word(i) : i \in 0..ROM_COUNT} \cup {Word(65537), ERASED_WORD}]

\* gpio_get_all(): the address lines, the driven outputs and /RD
gpio_get_all ==
    busAddr
    + (IF dataDir = "out" THEN BitAnd(gpioOut, DATA_MASK) ELSE 0)
    + (IF pwrDir = "out" THEN BitAnd(gpioOut, PWR_ON_MASK) ELSE 0)
    + rd * READ_MASK

\* the byte on D0..D7 of a GPIO word
DataByte(word) == (word \div Pow2(DATA_SHIFT)) % 256

\* RAM, registers and pins after reset, before main runs
ResetState ==
    /\ pc = "main"
    /\ retpc = "none"
    /\ rom = RomReset
    /\ ROM_MASK = ROM_MASK_INIT
    /\ current_rom = 0
    /\ address = 0
    /\ data = 0
    /\ rom_index = 0
    /\ page_buffer = [magic |-> Word(0), rom_index |-> Word(0)]
    /\ erased = {}
    /\ programmed = {}
    /\ irq = TRUE
    /\ ints = FALSE
    /\ dataDir = "in"
    /\ pwrDir = "in"
    /\ gpioOut = 0
    /\ busAtSample = 0
    /\ sel = -1
    /\ idle = FALSE
    /\ selects = 0
    /\ saves = 0
    /\ pulseWrites = 0
    /\ pulseOver = TRUE
    /\ irqAtCall = TRUE

Init ==
    /\ ResetState
    /\ flash \in InitFlash
    /\ rd \in {0, 1}
    /\ busAddr \in BusAddrs
    /\ chosen = -1
    /\ rewritten = FALSE
    /\ cutInWrite = FALSE

\* ------------------------------------------------------------------ main()

\* lines 111-115: gpio_init_mask, gpio_set_dir_in_masked, then
\* current_rom = load_rom_index_from_flash()
MainLoadIndex ==
    /\ pc = "main"
    /\ dataDir' = "in"
    /\ pwrDir' = "in"
    /\ gpioOut' = 0
    /\ current_rom' = load_rom_index_from_flash(flash)
    /\ pc' = "copy"
    /\ UNCHANGED << retpc, flash, rom, ROM_MASK, address, data, rom_index,
                    page_buffer, erased, programmed, irq, ints, rd, busAddr >>
    /\ UNCHANGED hist
    /\ UNCHANGED counts

\* mutant: the directory is written into every image, not only the menu's
MainCopyRom_AlwaysInjects ==
    /\ pc = "copy"
    /\ \E rom_entry \in get_rom_by_index(current_rom) :
          /\ rom' = InjectDirectory(MemcpyEntry(rom, rom_entry))
          /\ ROM_MASK' = rom_entry.mask
    /\ pc' = "bootsave"
    /\ cutInWrite' = FALSE
    /\ UNCHANGED << retpc, flash, current_rom, address, data, rom_index,
                    page_buffer, erased, programmed, irq, ints, dataDir, pwrDir, gpioOut,
                    rd, busAddr, busAtSample, sel, chosen, rewritten, idle >>
    /\ UNCHANGED counts

\* lines 117-125: copy the image, inject the directory into the menu image,
\* set ROM_MASK
MainCopyRom ==
    /\ pc = "copy"
    /\ \E rom_entry \in get_rom_by_index(current_rom) :
          /\ rom' = IF MENU_ROM = current_rom
                    THEN InjectDirectory(MemcpyEntry(rom, rom_entry))
                    ELSE MemcpyEntry(rom, rom_entry)
          /\ ROM_MASK' = rom_entry.mask
    /\ pc' = "bootsave"
    /\ cutInWrite' = FALSE
    /\ UNCHANGED << retpc, flash, current_rom, address, data, rom_index,
                    page_buffer, erased, programmed, irq, ints, dataDir, pwrDir, gpioOut,
                    rd, busAddr, busAtSample, sel, chosen, rewritten, idle >>
    /\ UNCHANGED counts

\* mutant: the boot saves the index it loaded instead of 0
MainSave_CurrentRom ==
    /\ pc = "bootsave"
    /\ rom_index' = current_rom
    /\ retpc' = "power"
    /\ pc' = "save"
    /\ UNCHANGED << flash, rom, ROM_MASK, current_rom, address, data, page_buffer,
                    erased, programmed, irq, ints, dataDir, pwrDir, gpioOut, rd, busAddr >>
    /\ UNCHANGED hist
    /\ irqAtCall' = irq
    /\ UNCHANGED << selects, saves, pulseWrites, pulseOver >>

\* line 128: save_rom_index_to_flash(0)
MainSave ==
    /\ pc = "bootsave"
    /\ rom_index' = 0
    /\ retpc' = "power"
    /\ pc' = "save"
    /\ UNCHANGED << flash, rom, ROM_MASK, current_rom, address, data, page_buffer,
                    erased, programmed, irq, ints, dataDir, pwrDir, gpioOut, rd, busAddr >>
    /\ UNCHANGED hist
    /\ irqAtCall' = irq
    /\ UNCHANGED << selects, saves, pulseWrites, pulseOver >>

\* lines 130-133: drive PWR_ON_PIN high and enter handle_bus()
MainPowerOn ==
    /\ pc = "power"
    /\ pwrDir' = "out"
    /\ gpioOut' = BitOr(gpioOut, PWR_ON_MASK)
    /\ pc' = "wait"
    /\ idle' = (rd = 1)
    /\ UNCHANGED << retpc, flash, rom, ROM_MASK, current_rom, address, data,
                    rom_index, page_buffer, erased, programmed, irq, ints, dataDir, rd,
                    busAddr, busAtSample, sel, chosen, rewritten, cutInWrite >>
    /\ UNCHANGED counts

\* ------------------------------------------------ save_rom_index_to_flash()

\* the erase has changed the sector and the program has not yet completed
InWrite == (pc = "erase" /\ erased # {}) \/ pc = "program"

\* mutant: the interrupts are left as they are at line 75
SavePrepare_IrqOn ==
    /\ pc = "save"
    /\ page_buffer' = PagePayload(rom_index)
    /\ ints' = irq
    /\ erased' = {}
    /\ programmed' = {}
    /\ pc' = "erase"
    /\ UNCHANGED << retpc, flash, rom, ROM_MASK, current_rom, address, data,
                    rom_index, irq, dataDir, pwrDir, gpioOut, rd, busAddr >>
    /\ UNCHANGED hist
    /\ UNCHANGED counts

\* lines 70-75: fill page_buffer, save_and_disable_interrupts
SavePrepare ==
    /\ pc = "save"
    /\ page_buffer' = PagePayload(rom_index)
    /\ ints' = irq
    /\ irq' = FALSE
    /\ erased' = {}
    /\ programmed' = {}
    /\ pc' = "erase"
    /\ UNCHANGED << retpc, flash, rom, ROM_MASK, current_rom, address, data,
                    rom_index, dataDir, pwrDir, gpioOut, rd, busAddr >>
    /\ UNCHANGED hist
    /\ UNCHANGED counts

\* mutant: the sector is not erased before it is programmed
FlashRangeErase_NoErase ==
    /\ pc = "erase"
    /\ erased' = PageWords
    /\ pc' = "program"
    /\ programmed' = {}
    /\ rewritten' = TRUE
    /\ UNCHANGED << retpc, flash, rom, ROM_MASK, current_rom, address, data,
                    rom_index, page_buffer, irq, ints, dataDir, pwrDir, gpioOut, rd,
                    busAddr, busAtSample, sel, chosen, cutInWrite, idle >>
    /\ UNCHANGED counts

\* line 77: flash_range_erase(SETTINGS_FLASH_OFFSET, SETTINGS_SECTOR_SIZE); the
\* sector is not erased in one indivisible step: one word at a time
FlashRangeErase ==
    /\ pc = "erase"
    /\ \E w \in PageWords \ erased :
          /\ flash' = [flash EXCEPT ![w] = ERASED_WORD]
          /\ erased' = erased \cup {w}
          /\ pc' = IF erased' = PageWords THEN "program" ELSE "erase"
    /\ programmed' = {}
    /\ rewritten' = TRUE
    /\ UNCHANGED << retpc, rom, ROM_MASK, current_rom, address, data, rom_index,
                    page_buffer, irq, ints, dataDir, pwrDir, gpioOut, rd, busAddr,
                    busAtSample, sel, chosen, cutInWrite, idle >>
    /\ UNCHANGED counts

\* line 78: flash_range_program(SETTINGS_FLASH_OFFSET, page_buffer, 256); the
\* page is not written in one indivisible step: one word at a time
FlashRangeProgram ==
    /\ pc = "program"
    /\ \E w \in PageWords \ programmed :
          /\ flash' = [flash EXCEPT ![w] = ProgramWord(@, page_buffer[w])]
          /\ programmed' = programmed \cup {w}
          /\ pc' = IF programmed' = PageWords THEN "restore" ELSE "program"
    /\ UNCHANGED << retpc, rom, ROM_MASK, current_rom, address, data, rom_index,
                    page_buffer, erased, irq, ints, dataDir, pwrDir, gpioOut, rd,
                    busAddr >>
    /\ UNCHANGED hist
    /\ UNCHANGED counts

\* lines 79-80: restore_interrupts(ints) and return
RestoreInterrupts ==
    /\ pc = "restore"
    /\ irq' = ints
    /\ pc' = retpc
    /\ retpc' = "none"
    /\ chosen' = IF retpc = "wait"
                 THEN (IF sel \in 1..(ROM_COUNT - 1) THEN sel ELSE -1)
                 ELSE chosen
    /\ rewritten' = IF retpc = "wait" THEN FALSE ELSE rewritten
    /\ UNCHANGED << flash, rom, ROM_MASK, current_rom, address, data, rom_index,
                    page_buffer, erased, programmed, ints, dataDir, pwrDir, gpioOut, rd,
                    busAddr, busAtSample, sel, cutInWrite, idle >>
    /\ saves' = UpTo(saves, MaxCount + 1)
    /\ UNCHANGED << selects, pulseWrites, pulseOver, irqAtCall >>

\* ------------------------------------------------------------ handle_bus()

\* mutant: the loop does not wait for /RD to go low
WaitRead_NoPoll ==
    /\ pc = "wait"
    /\ pc' = "sample"
    /\ UNCHANGED << retpc, flash, rom, ROM_MASK, current_rom, address, data,
                    rom_index, page_buffer, erased, programmed, irq, ints, dataDir,
                    pwrDir, gpioOut, rd, busAddr >>
    /\ UNCHANGED hist
    /\ UNCHANGED counts

\* line 86: while (gpio_get_all() & READ_MASK);
WaitRead ==
    /\ pc = "wait"
    /\ BitAnd(gpio_get_all, READ_MASK) = 0
    /\ pc' = "sample"
    /\ UNCHANGED << retpc, flash, rom, ROM_MASK, current_rom, address, data,
                    rom_index, page_buffer, erased, programmed, irq, ints, dataDir, pwrDir,
                    gpioOut, rd, busAddr >>
    /\ UNCHANGED hist
    /\ UNCHANGED counts

\* mutant: the low 16 bits of the GPIO word are used without ROM_MASK
MaskAddress_Low16(gpio, mask) == gpio % ROM_SIZE

\* mutant: the GPIO word is cut down with ADDR_MASK (17 bits) instead of ROM_MASK
MaskAddress_AddrMask(gpio, mask) == BitAnd(gpio, ADDR_MASK)

\* line 88: gpio_get_all() & ROM_MASK
MaskAddress(gpio, mask) == BitAnd(gpio, mask)

\* mutant: the word of line 89 without the power bit
BusWord_NoPower(byte) == byte * Pow2(DATA_SHIFT)

\* line 89: rom[address] << 17 | PWR_ON_MASK
BusWord(byte) == BitOr(byte * Pow2(DATA_SHIFT), PWR_ON_MASK)

\* lines 88-89
SampleAddress ==
    /\ pc = "sample"
    /\ address' = MaskAddress(gpio_get_all, ROM_MASK)
    /\ data' = BusWord(Rom(rom, address'))
    /\ busAtSample' = busAddr
    /\ IF MENU_ROM = current_rom /\ busAddr \in CMD_FIRST..CMD_LAST
       THEN sel' = busAddr % 256 /\ chosen' = -1
       ELSE UNCHANGED << sel, chosen >>
    /\ pc' = "dirout"
    /\ UNCHANGED << retpc, flash, rom, ROM_MASK, current_rom, rom_index,
                    page_buffer, erased, programmed, irq, ints, dataDir, pwrDir,
                    gpioOut, rd, busAddr, rewritten, cutInWrite, idle >>
    /\ pulseWrites' = IF pulseOver THEN 0 ELSE pulseWrites
    /\ pulseOver' = FALSE
    /\ UNCHANGED << selects, saves, irqAtCall >>

\* line 91: gpio_set_dir_out_masked(DATA_MASK)
SetDirOut ==
    /\ pc = "dirout"
    /\ dataDir' = "out"
    /\ pc' = "put"
    /\ UNCHANGED << retpc, flash, rom, ROM_MASK, current_rom, address, data,
                    rom_index, page_buffer, erased, programmed, irq, ints, pwrDir, gpioOut,
                    rd, busAddr >>
    /\ UNCHANGED hist
    /\ UNCHANGED counts

\* line 92: gpio_put_all(data)
PutAll ==
    /\ pc = "put"
    /\ gpioOut' = data
    /\ pc' = "dirin"
    /\ UNCHANGED << retpc, flash, rom, ROM_MASK, current_rom, address, data,
                    rom_index, page_buffer, erased, programmed, irq, ints, dataDir, pwrDir,
                    rd, busAddr >>
    /\ UNCHANGED hist
    /\ UNCHANGED counts

\* mutant: line 93 is left out, the data lines stay outputs
SetDirIn_StaysOut ==
    /\ pc = "dirin"
    /\ pc' = "check"
    /\ UNCHANGED << retpc, flash, rom, ROM_MASK, current_rom, address, data,
                    rom_index, page_buffer, erased, programmed, irq, ints, dataDir,
                    pwrDir, gpioOut, rd, busAddr >>
    /\ UNCHANGED hist
    /\ UNCHANGED counts

\* line 93: gpio_set_dir_in_masked(DATA_MASK)
SetDirIn ==
    /\ pc = "dirin"
    /\ dataDir' = "in"
    /\ pc' = "check"
    /\ UNCHANGED << retpc, flash, rom, ROM_MASK, current_rom, address, data,
                    rom_index, page_buffer, erased, programmed, irq, ints, pwrDir, gpioOut,
                    rd, busAddr >>
    /\ UNCHANGED hist
    /\ UNCHANGED counts

\* mutant: the test for the menu is dropped from the condition
IsSelect_AnyRom(cur, addr) == addr >= CMD_FIRST /\ addr <= CMD_LAST

\* mutant: the window of line 95 ends one address later, at 0x1100
IsSelect_WiderWindow(cur, addr) ==
    MENU_ROM = cur /\ addr >= CMD_FIRST /\ addr <= CMD_LAST + 1

\* line 95: the condition of the if
IsSelect(cur, addr) == MENU_ROM = cur /\ addr >= CMD_FIRST /\ addr <= CMD_LAST

\* mutant: bit 0 of the address is dropped from the index
SelectedIndex_DropsBit0(addr) == BitAnd(addr, 254)

\* line 96: address & 0xFF
SelectedIndex(addr) == BitAnd(addr, 255)

\* line 95 false: back to the top of the loop
NoSelect ==
    /\ pc = "check"
    /\ ~IsSelect(current_rom, address)
    /\ pc' = "wait"
    /\ UNCHANGED << retpc, flash, rom, ROM_MASK, current_rom, address, data,
                    rom_index, page_buffer, erased, programmed, irq, ints, dataDir, pwrDir,
                    gpioOut, rd, busAddr >>
    /\ UNCHANGED hist
    /\ UNCHANGED counts

\* mutant: line 99 is left out, the mask stays the one of the menu
SelectRom_KeepsMask ==
    /\ pc = "check"
    /\ IsSelect(current_rom, address)
    /\ current_rom' = SelectedIndex(address)
    /\ \E rom_entry \in get_rom_by_index(current_rom') :
          rom' = MemcpyEntry(rom, rom_entry)
    /\ rom_index' = current_rom'
    /\ retpc' = "wait"
    /\ pc' = "save"
    /\ chosen' = -1
    /\ UNCHANGED << flash, ROM_MASK, address, data, page_buffer, erased, programmed,
                    irq, ints, dataDir, pwrDir, gpioOut, rd, busAddr, busAtSample,
                    sel, rewritten, cutInWrite, idle >>
    /\ selects' = UpTo(selects, MaxCount)
    /\ pulseWrites' = UpTo(pulseWrites, MaxCount)
    /\ irqAtCall' = irq
    /\ UNCHANGED << saves, pulseOver >>

\* lines 95-100: switch to the ROM named by the low byte, then call
\* save_rom_index_to_flash(current_rom)
SelectRom ==
    /\ pc = "check"
    /\ IsSelect(current_rom, address)
    /\ current_rom' = SelectedIndex(address)
    /\ \E rom_entry \in get_rom_by_index(current_rom') :
          /\ rom' = MemcpyEntry(rom, rom_entry)
          /\ ROM_MASK' = rom_entry.mask
    /\ rom_index' = current_rom'
    /\ retpc' = "wait"
    /\ pc' = "save"
    /\ chosen' = -1
    /\ UNCHANGED << flash, address, data, page_buffer, erased, programmed, irq, ints,
                    dataDir, pwrDir, gpioOut, rd, busAddr, busAtSample, sel,
                    rewritten, cutInWrite, idle >>
    /\ selects' = UpTo(selects, MaxCount)
    /\ pulseWrites' = UpTo(pulseWrites, MaxCount)
    /\ irqAtCall' = irq
    /\ UNCHANGED << saves, pulseOver >>

\* lines 97-98 with an index outside the table: the copy from wherever the
\* entry points can also fault, and the core then stays in the fault handler
SelectRomFault ==
    /\ pc = "check"
    /\ IsSelect(current_rom, address)
    /\ SelectedIndex(address) >= ROM_COUNT
    /\ current_rom' = SelectedIndex(address)
    /\ pc' = "fault"
    /\ chosen' = -1
    /\ UNCHANGED << retpc, flash, rom, ROM_MASK, address, data, rom_index,
                    page_buffer, erased, programmed, irq, ints, dataDir, pwrDir,
                    gpioOut, rd, busAddr, busAtSample, sel, rewritten, cutInWrite,
                    idle >>
    /\ UNCHANGED counts

\* ------------------------------------------------------------- environment

\* the console changes /RD and the address lines
BusChange ==
    /\ \E r \in {0, 1}, a \in BusAddrs :
          /\ << r, a >> # << rd, busAddr >>
          /\ rd' = r
          /\ busAddr' = a
    /\ idle' = (idle /\ rd' = 1)
    /\ UNCHANGED prog
    /\ UNCHANGED << busAtSample, sel, chosen, rewritten, cutInWrite >>
    /\ pulseOver' = TRUE
    /\ UNCHANGED << selects, saves, pulseWrites, irqAtCall >>

\* power is removed and applied again: RAM, registers and pins are reset, the
\* flash keeps what it held
PowerCycle ==
    /\ pc # "main"
    /\ pc' = "main"
    /\ retpc' = "none"
    /\ rom' = RomReset
    /\ ROM_MASK' = ROM_MASK_INIT
    /\ current_rom' = 0
    /\ address' = 0
    /\ data' = 0
    /\ rom_index' = 0
    /\ page_buffer' = [magic |-> Word(0), rom_index |-> Word(0)]
    /\ erased' = {}
    /\ programmed' = {}
    /\ irq' = TRUE
    /\ ints' = FALSE
    /\ dataDir' = "in"
    /\ pwrDir' = "in"
    /\ gpioOut' = 0
    /\ busAtSample' = 0
    /\ sel' = -1
    /\ idle' = FALSE
    /\ selects' = 0
    /\ saves' = 0
    /\ pulseWrites' = 0
    /\ pulseOver' = TRUE
    /\ irqAtCall' = TRUE
    /\ cutInWrite' = InWrite
    /\ chosen' = IF InWrite THEN -1 ELSE chosen
    /\ UNCHANGED << flash, rd, busAddr, rewritten >>

Next ==
    \/ MainLoadIndex
    \/ MainCopyRom
    \/ MainSave
    \/ MainPowerOn
    \/ SavePrepare
    \/ FlashRangeErase
    \/ FlashRangeProgram
    \/ RestoreInterrupts
    \/ WaitRead
    \/ SampleAddress
    \/ SetDirOut
    \/ PutAll
    \/ SetDirIn
    \/ NoSelect
    \/ SelectRom
    \/ SelectRomFault
    \/ BusChange
    \/ PowerCycle

Spec == Init /\ [][Next]_vars

\* ================================================================== claims

\* the program is inside handle_bus()
InLoop == pc \in {"wait", "sample", "dirout", "put", "dirin", "check"}

\* C1: whenever the loop has put a byte on the data lines, for whatever value
\* the 17 address lines had when they were sampled, that byte is
\* rom[a AND ROM_MASK] of the buffer being served.
C1_ServedByte ==
    pc = "dirin" =>
        /\ dataDir = "out"
        /\ DataByte(gpioOut) = Rom(rom, BitAnd(busAtSample, ROM_MASK))

\* C1 witness: a byte is on the data lines for the address 0x11001, which the
\* mask of a 16 KiB game folds down to 0x1001
C1_Witness ==
    /\ pc = "dirin"
    /\ busAtSample = 69633
    /\ ROM_MASK = 16383
    /\ current_rom = 1
    /\ DataByte(gpioOut) = RomData(1, 4097)

\* C2: once the loop has handled a read made from the menu at an address of
\* the command window whose low byte k names a game (0 < k < ROM_COUNT),
\* current_rom is k, ROM_MASK is entry k's mask and the settings page loads as
\* k; and the boot that follows, with the page untouched, loads k.
C2_SelectGesture ==
    /\ (pc = "wait" /\ sel \in 1..(ROM_COUNT - 1)) =>
          /\ current_rom = sel
          /\ ROM_MASK = rom_entries[sel].mask
          /\ load_rom_index_from_flash(flash) = sel
    /\ (pc = "copy" /\ chosen \in 1..(ROM_COUNT - 1) /\ ~rewritten) =>
          current_rom = chosen

\* C2 witness: the boot after the selection of game 2 has loaded index 2
C2_Witness ==
    /\ pc = "copy"
    /\ chosen = 2
    /\ ~rewritten
    /\ current_rom = 2

StoreInit ==
    /\ pc = "call"
    /\ retpc = "none"
    /\ flash \in InitFlash
    /\ rom = RomReset
    /\ ROM_MASK = ROM_MASK_INIT
    /\ current_rom = 0
    /\ address = 0
    /\ data = 0
    /\ rom_index = 0
    /\ page_buffer \in {[magic |-> Word(0), rom_index |-> Word(0)], PagePayload(1)}
    /\ erased = {}
    /\ programmed = {}
    /\ irq \in BOOLEAN
    /\ ints = FALSE
    /\ dataDir = "in"
    /\ pwrDir = "in"
    /\ gpioOut = 0
    /\ rd = 1
    /\ busAddr = 0
    /\ busAtSample = 0
    /\ sel = -1
    /\ chosen = -1
    /\ rewritten = FALSE
    /\ cutInWrite = FALSE
    /\ idle = FALSE
    /\ selects = 0
    /\ saves = 0
    /\ pulseWrites = 0
    /\ pulseOver = TRUE
    /\ irqAtCall = TRUE

\* save_rom_index_to_flash(i) is called with a valid index
StoreCallSave ==
    /\ pc = "call"
    /\ \E i \in 0..(ROM_COUNT - 1) : rom_index' = i
    /\ retpc' = "loadback"
    /\ pc' = "save"
    /\ UNCHANGED << flash, rom, ROM_MASK, current_rom, address, data, page_buffer,
                    erased, programmed, irq, ints, dataDir, pwrDir, gpioOut, rd,
                    busAddr >>
    /\ UNCHANGED hist
    /\ irqAtCall' = irq
    /\ UNCHANGED << selects, saves, pulseWrites, pulseOver >>

\* load_rom_index_from_flash() is called after the save has returned
StoreLoadBack ==
    /\ pc = "loadback"
    /\ current_rom' = load_rom_index_from_flash(flash)
    /\ pc' = "loaded"
    /\ UNCHANGED << retpc, flash, rom, ROM_MASK, address, data, rom_index,
                    page_buffer, erased, programmed, irq, ints, dataDir, pwrDir,
                    gpioOut, rd, busAddr >>
    /\ UNCHANGED hist
    /\ UNCHANGED counts

StoreNext ==
    \/ StoreCallSave
    \/ SavePrepare
    \/ FlashRangeErase
    \/ FlashRangeProgram
    \/ RestoreInterrupts
    \/ StoreLoadBack

StoreSpec == StoreInit /\ [][StoreNext]_vars

\* C4: a save(i) that has run to completion, for any valid i and whatever the
\* settings page held before, is followed by a load() that returns i.
C4_SaveLoadRoundTrip ==
    pc = "loaded" => (rom_index < ROM_COUNT /\ current_rom = rom_index)

\* C4 witness: index 2 was saved and loaded back
C4_Witness ==
    /\ pc = "loaded"
    /\ rom_index = 2
    /\ current_rom = 2
    /\ flash = PagePayload(2)

\* C5: the load of a boot leaves the settings page as it was, and returns the
\* stored index when the magic is the sentinel and the index is below
\* ROM_COUNT, and 0 for any other content: another magic whatever the index,
\* an index of ROM_COUNT or more, an erased page.
C5_LoadValidOrDefault ==
    [][(pc = "main" /\ pc' = "copy") =>
          /\ flash' = flash
          /\ (flash.magic = SETTINGS_MAGIC /\ flash.rom_index \in {Word(i) : i \in 0..(ROM_COUNT - 1)})
                => Word(current_rom') = flash.rom_index
          /\ flash.magic # SETTINGS_MAGIC => current_rom' = 0
          /\ flash.rom_index \notin {Word(i) : i \in 0..(ROM_COUNT - 1)} => current_rom' = 0
          /\ flash = ErasedPage => current_rom' = 0]_vars

\* C5 witness: a page with an altered magic and the index of a game has been
\* loaded as 0
C5_Witness ==
    /\ pc = "copy"
    /\ flash.magic = BAD_MAGIC
    /\ flash.rom_index = Word(1)
    /\ current_rom = 0

\* C6: a boot that follows a power loss between the first change made by the
\* erase and the end of the page program loads index 0.
C6_CutWriteLoadsDefault ==
    (pc = "copy" /\ cutInWrite) => current_rom = 0

\* C6 witness: power was lost when the magic had been programmed and the
\* index had not; the boot after it loaded 0
C6_Witness ==
    /\ pc = "copy"
    /\ cutInWrite
    /\ flash.magic = SETTINGS_MAGIC
    /\ flash.rom_index = ERASED_WORD
    /\ current_rom = 0

\* C7: while /RD has been high ever since handle_bus() was entered, no step
\* writes the GPIO output register, changes a pin direction or changes the
\* settings page, and the program stays at the strobe poll.
C7_IdleNoWrites ==
    [][(idle /\ idle') =>
          /\ pc' = "wait"
          /\ UNCHANGED << gpioOut, dataDir, pwrDir, flash >>]_vars

\* C7 witness: the loop is idle at the poll while the console, with /RD high,
\* has moved the address lines into the command window of the menu
C7_Witness ==
    /\ idle
    /\ pc = "wait"
    /\ rd = 1
    /\ current_rom = MENU_ROM
    /\ busAddr = 4097

\* little-endian number in the n bytes of the buffer from address a
RECURSIVE ReadLE(_, _, _)
ReadLE(r, a, n) == IF n = 0 THEN 0 ELSE Rom(r, a) + 256 * ReadLE(r, a + 1, n - 1)

\* the directory the menu program reads: the count byte and ROM_COUNT records
DirectoryOk(r) ==
    /\ Rom(r, DIR_COUNT_ADDR) = ROM_COUNT - 1
    /\ \A i \in 0..(ROM_COUNT - 1) :
          LET a == DIR_ENTRIES_ADDR + i * ENTRY_SIZE
          IN  /\ ReadLE(r, a, 4) = rom_entries[i].id
              /\ ReadLE(r, a + 4, 4) = rom_entries[i].size
              /\ ReadLE(r, a + 8, 2) = rom_entries[i].mask

\* C8 as claimed: whenever the loop serves with index 0 as the active image,
\* after a boot that loaded 0 and after a select gesture with low byte 0, the
\* byte at 0x1100 is ROM_COUNT - 1 and ROM_COUNT records matching the catalog
\* follow from 0x1101.
C8_MenuHasDirectory ==
    (pc = "wait" /\ current_rom = MENU_ROM) => DirectoryOk(rom)

\* the part of C8 that the code keeps: the menu image a boot has loaded holds
\* the directory until a select gesture reloads the buffer
C8_BootMenuHasDirectory ==
    (pc \in {"bootsave", "power"} /\ current_rom = MENU_ROM) => DirectoryOk(rom)

\* addresses at which the buffer is compared with the catalog image
ProbeAddrs == {BitAnd(a, 65535) : a \in BusAddrs} \cup {16383, 16384, 32767, 32768}

InDirectory(a) ==
    a >= DIR_COUNT_ADDR /\ a < DIR_ENTRIES_ADDR + ENTRY_SIZE * ROM_COUNT

\* C9 as claimed: whenever a byte is served, current_rom is a catalog index,
\* ROM_MASK is that entry's mask and the buffer holds that entry's bytes over
\* its size (the directory of the menu image aside).
C9_ActiveImageValid ==
    pc \in {"dirout", "put", "dirin"} =>
        /\ current_rom < ROM_COUNT
        /\ ROM_MASK = rom_entries[current_rom].mask
        /\ \A a \in ProbeAddrs :
              (a < rom_entries[current_rom].size /\ ~(current_rom = MENU_ROM /\ InDirectory(a)))
                 => Rom(rom, a) = RomData(current_rom, a)

\* C10: the index the loop uses into rom is below 65536: for every value of the
\* address lines and every mask, it is the sampled address cut down by ROM_MASK.
C10_IndexInBuffer ==
    /\ address \in 0..(ROM_SIZE - 1)
    /\ pc \in {"dirout", "put", "dirin", "check"} =>
          address = BitAnd(busAtSample % ROM_SIZE, ROM_MASK)

\* C10 witness: all 17 address lines high under the 64 KiB mask of game 2
C10_Witness ==
    /\ pc = "dirout"
    /\ busAtSample = ADDR_MASK
    /\ ROM_MASK = 65535
    /\ address = ROM_SIZE - 1

\* ------------------------------------------------------------------- C11

BootPcs == {"main", "copy", "bootsave", "power"}

\* main is still before handle_bus: in its own steps or in the save of line 128
InBoot == pc \in BootPcs \/ retpc = "power"

\* handle_bus is inside the save of line 100
InSwitchSave == retpc = "wait"

StateVars == << current_rom, ROM_MASK, rom, flash >>

\* C11: from the load of line 115 to the entry of the loop the index stays the
\* loaded one; inside the loop the index leaves 0 only in the step after a
\* served address in 0x1000..0x10FF; and while the loop runs with an index
\* other than 0, no step of the loop, for any address read, changes the index,
\* the mask, the buffer or the settings page, until the power is cycled.
C11_StateMachine ==
    [][ /\ (InBoot /\ pc \notin {"main"} /\ pc' # "main") => current_rom' = current_rom
        /\ (InLoop /\ current_rom = MENU_ROM /\ current_rom' # MENU_ROM /\ pc' # "main")
              => (pc = "check" /\ address \in CMD_FIRST..CMD_LAST)
        /\ (InLoop /\ current_rom # MENU_ROM /\ pc' # "main")
              => (InLoop' /\ UNCHANGED StateVars) ]_vars

\* C11 witness: game 2 is being served and a read of 0x1001, an address of the
\* command window, has gone through the whole pass
C11_Witness ==
    /\ pc = "wait"
    /\ current_rom = 2
    /\ selects = 1
    /\ busAtSample = 4097
    /\ address = 4097
    /\ DataByte(gpioOut) = RomData(2, 4097)

\* ------------------------------------------------------------------- C12

\* the saves that have returned are the one of the boot and one for each ROM
\* switch of the loop
C12_WritesCounted ==
    /\ (pc = "power" \/ InLoop) => saves = 1 + selects
    /\ (InSwitchSave /\ selects < MaxCount) => saves = selects
    /\ (InBoot /\ pc # "power") => (saves = 0 /\ selects = 0)

\* C12: the settings page is written once in the boot and once for each ROM
\* switch, and for one read pulse, /RD held low on one address over several
\* passes of the loop, the loop calls save at most once.
C12_OneWritePerPulse ==
    /\ C12_WritesCounted
    /\ pulseWrites <= 1

\* a read pulse that switched to a game is followed by no second save
C12_OneWritePerGamePulse ==
    (current_rom # MENU_ROM) => pulseWrites <= 1

\* ------------------------------------------------------------------- C13

SavePcs == {"save", "erase", "program", "restore"}

\* C13: in every save the interrupts are disabled first, then the page's words
\* are erased, then, with all of them erased, programmed, and then the
\* interrupts are restored; the settings page changes only with the interrupts
\* disabled, and the return leaves the interrupts as they were at the call.
\* (A step to "main" is a power cycle, and a step that leaves prog as it is
\* is the console's: neither is a step of the save.)
C13_SaveOrder ==
    [][ (prog' # prog /\ pc' # "main") =>
        /\ pc = "save" => (pc' = "erase" /\ ~irq' /\ flash' = flash)
        /\ pc = "erase" =>
              (/\ pc' \in {"erase", "program"}
               /\ \A w \in PageWords : flash'[w] # flash[w] => flash'[w] = ERASED_WORD
               /\ pc' = "program" => \A w \in PageWords : flash'[w] = ERASED_WORD)
        /\ pc = "program" =>
              (/\ pc' \in {"program", "restore"}
               /\ erased = PageWords
               /\ pc' = "restore" => flash' = page_buffer)
        /\ pc = "restore" => (pc' \notin SavePcs /\ flash' = flash /\ irq' = irqAtCall)
        /\ flash' # flash => (~irq /\ ~irq' /\ pc \in {"erase", "program"})
        /\ pc \notin SavePcs => irq' = irq ]_vars

\* C13 witness: a save called with the interrupts enabled has written index 1
\* and has returned with the interrupts enabled
C13_Witness ==
    /\ pc = "loadback"
    /\ irqAtCall
    /\ irq
    /\ saves = 1
    /\ flash = PagePayload(1)

\* ------------------------------------------------------------------- C14

\* rom and ROM_MASK are the ones of catalog entry i (the bytes of the image,
\* read at the probe addresses below its size)
LoadedFromCatalog(i) ==
    /\ ROM_MASK = rom_entries[i].mask
    /\ \A a \in ProbeAddrs : a < rom_entries[i].size => Rom(rom, a) = RomData(i, a)

\* C14: when the save of a select gesture begins, the index, the image and the
\* mask are already the new ones, and the index passed to save is the new one;
\* from the gesture's check to the return of that save nothing is written to
\* the pins and the data lines stay inputs; and every byte served after a
\* switch, the first one included, is the byte of the new image at the sampled
\* address cut down by the new mask.
C14_ReloadThenPersist ==
    /\ [](InSwitchSave =>
            /\ rom_index = current_rom
            /\ dataDir = "in"
            /\ current_rom < ROM_COUNT => LoadedFromCatalog(current_rom))
    /\ []((pc = "dirin" /\ selects >= 1 /\ current_rom < ROM_COUNT) =>
            DataByte(gpioOut) =
               RomData(current_rom,
                       BitAnd(busAtSample % ROM_SIZE, rom_entries[current_rom].mask)))
    /\ [][ ((pc = "check" \/ InSwitchSave) /\ pc' # "main") =>
              (gpioOut' = gpioOut /\ dataDir' = "in" /\ data' = data) ]_vars

\* C14 witness: after the switch to game 1 (16 KiB, mask 0x3FFF) a read of
\* 0x4001 has been served with byte 1 of game 1
C14_Witness ==
    /\ pc = "dirin"
    /\ selects = 1
    /\ current_rom = 1
    /\ busAtSample = 16385
    /\ DataByte(gpioOut) = RomData(1, 1)
    /\ flash = PagePayload(1)

\* ------------------------------------------------------------------- C15

\* the save of line 128 has not begun to change the settings page
BeforeBootWrite ==
    \/ pc \in {"copy", "bootsave"}
    \/ (retpc = "power" /\ (pc = "save" \/ (pc = "erase" /\ erased = {})))

\* C15: main runs the load, then the copy of the loaded image (with the
\* directory for index 0 and without it for any other), then one save, and
\* then enters the loop. Until the save begins to write, the index in use is
\* the one the settings page gives; until the save has returned nothing is put
\* on the pins and the data lines are inputs; the loop is entered from line
\* 131 only, with one save done and its record in the settings page.
C15_BootOrder ==
    /\ [](BeforeBootWrite => current_rom = load_rom_index_from_flash(flash))
    /\ []((pc = "bootsave" \/ retpc = "power") =>
            /\ current_rom < ROM_COUNT
            /\ ROM_MASK = rom_entries[current_rom].mask
            /\ \A a \in ProbeAddrs :
                  (a < rom_entries[current_rom].size
                      /\ ~(current_rom = MENU_ROM /\ InDirectory(a)))
                     => Rom(rom, a) = RomData(current_rom, a)
            /\ current_rom = MENU_ROM => DirectoryOk(rom))
    /\ []((InBoot /\ pc # "power") =>
            (saves = 0 /\ gpioOut = 0 /\ dataDir = "in" /\ pwrDir = "in"))
    /\ [](pc = "power" =>
            (saves = 1 /\ flash = PagePayload(0) /\ gpioOut = 0 /\ dataDir = "in"))
    /\ [][ (prog' # prog /\ pc' # "main") =>
              /\ pc = "main" => pc' = "copy"
              /\ pc = "copy" => pc' = "bootsave"
              /\ pc = "bootsave" => (pc' = "save" /\ retpc' = "power")
              /\ (InLoop' /\ ~InLoop /\ ~InSwitchSave) => pc = "power" ]_vars

\* C15 witness: the settings page held index 1; the boot has loaded game 1
\* without a directory, has written index 0 and is in the loop
C15_Witness ==
    /\ pc = "wait"
    /\ selects = 0
    /\ saves = 1
    /\ current_rom = 1
    /\ Rom(rom, DIR_COUNT_ADDR) = RomData(1, DIR_COUNT_ADDR)
    /\ flash = PagePayload(0)
    /\ gpioOut = PWR_ON_MASK

\* ------------------------------------------------------------------- C16

\* a pass of the loop over the sampled address leaves the index, the mask, the
\* buffer and the settings page as they are, and of the pins changes only the
\* word put on them and the direction of the data lines
MenuPassFrame ==
    /\ UNCHANGED StateVars
    /\ pwrDir' = pwrDir
    /\ BitAnd(gpioOut', PWR_ON_MASK) = BitAnd(gpioOut, PWR_ON_MASK)
    /\ InLoop'

\* C16: a pass of the loop in the menu over a read whose address lines hold a
\* value outside 0x1000..0x10FF leaves the index, the mask, the buffer and the
\* settings page unchanged.
C16_RawAddressOutsideWindow ==
    [][ (/\ pc \in {"sample", "dirout", "put", "dirin", "check"}
         /\ pc # "sample" => busAtSample \notin CMD_FIRST..CMD_LAST
         /\ pc = "sample" => busAddr \notin CMD_FIRST..CMD_LAST
         /\ current_rom = MENU_ROM
         /\ prog' # prog
         /\ pc' # "main") => MenuPassFrame ]_vars

\* C16 as the code has it: the address that counts is the served one, the
\* address lines cut down by ROM_MASK; a pass in the menu over a served address
\* outside 0x1000..0x10FF leaves the index, the mask, the buffer and the
\* settings page unchanged, and only drives and releases the data lines.
C16_ServedAddressOutsideWindow ==
    [][ (/\ pc \in {"sample", "dirout", "put", "dirin", "check"}
         /\ pc # "sample" =>
               BitAnd(busAtSample % ROM_SIZE, ROM_MASK) \notin CMD_FIRST..CMD_LAST
         /\ pc = "sample" =>
               BitAnd(busAddr % ROM_SIZE, ROM_MASK) \notin CMD_FIRST..CMD_LAST
         /\ current_rom = MENU_ROM
         /\ prog' # prog
         /\ pc' # "main") => MenuPassFrame ]_vars

\* C16 witness: in the menu a read of 0x1100, the first address after the
\* window, has gone through the whole pass and the directory is still there
C16_Witness ==
    /\ pc = "wait"
    /\ current_rom = MENU_ROM
    /\ busAtSample = DIR_COUNT_ADDR
    /\ address = DIR_COUNT_ADDR
    /\ DataByte(gpioOut) = ROM_COUNT - 1
    /\ dataDir = "in"
    /\ selects = 0
    /\ saves = 1

\* ------------------------------------------------------------------- C17

\* C17: the data lines are outputs only between lines 91 and 93, around the one
\* gpio_put_all of the served byte: they are inputs whenever /RD is polled or
\* the address sampled, during every reload of the image, and during every
\* erase and program of the settings page.
C17_DataLinesReleased ==
    /\ [](dataDir = "out" => pc \in {"put", "dirin"})
    /\ []((pc \in {"wait", "sample", "check"} \/ pc \in SavePcs \/ InBoot)
             => dataDir = "in")
    /\ [][ (dataDir = "out" /\ dataDir' = "out" /\ prog' # prog)
              => (pc = "put" /\ gpioOut' = data) ]_vars
    /\ [][ (pc' # "main" /\ (rom' # rom \/ flash' # flash))
              => (dataDir = "in" /\ dataDir' = "in") ]_vars

\* C17 witness: a byte has been driven, the gesture's reload is done and the
\* erase of the settings page is under way, with the data lines as inputs
C17_Witness ==
    /\ pc = "erase"
    /\ InSwitchSave
    /\ erased # {}
    /\ current_rom = 2
    /\ DataByte(gpioOut) = RomData(0, 4098)
    /\ dataDir = "in"

\* ------------------------------------------------------------------- C18

\* handle_bus has been entered: the loop, the save of line 100, or the fault
\* handler reached from lines 97-98
AfterLoopEntry == InLoop \/ InSwitchSave \/ pc = "fault"

\* C18: from the entry of the loop on, the power pin is an output and its bit
\* in the output register is set, and the word prepared for every gpio_put_all
\* has the bit set, whatever byte it carries.
C18_PowerHeldHigh ==
    /\ AfterLoopEntry => (pwrDir = "out" /\ BitAnd(gpioOut, PWR_ON_MASK) = PWR_ON_MASK)
    /\ pc \in {"dirout", "put", "dirin", "check"} =>
          (/\ BitAnd(data, PWR_ON_MASK) = PWR_ON_MASK
           /\ data = DataByte(data) * Pow2(DATA_SHIFT) + PWR_ON_MASK)

\* C18 witness: a byte other than 0 has been put on the pins, and the word
\* carries it together with the power bit
C18_Witness ==
    /\ pc = "dirin"
    /\ DataByte(gpioOut) # 0
    /\ gpioOut = DataByte(gpioOut) * Pow2(DATA_SHIFT) + PWR_ON_MASK
    /\ pwrDir = "out"

\* ------------------------------------------------------------------- C19

\* the settings page holds a record load_rom_index_from_flash accepts
ValidRecord(page) ==
    /\ page.magic = SETTINGS_MAGIC
    /\ WordLess(page.rom_index, ROM_COUNT)

\* C19: every call of save_rom_index_to_flash, from main and from the loop,
\* passes an index below ROM_COUNT, and after every save that has returned the
\* settings page holds a valid record.
C19_SavedIndexValid ==
    /\ pc \in SavePcs => rom_index \in 0..(ROM_COUNT - 1)
    /\ (saves >= 1 /\ pc \notin SavePcs) => ValidRecord(flash)

\* the save of line 128 passes 0 and leaves a valid record
C19_BootSaveValid ==
    /\ (pc \in SavePcs /\ retpc = "power") => rom_index = 0
    /\ (pc = "power" \/ (InLoop /\ selects = 0)) => ValidRecord(flash)

\* ------------------------------------------------------------------- C20

\* a step of the program (main, handle_bus or save_rom_index_to_flash)
ProgramStep ==
    \/ MainLoadIndex
    \/ MainCopyRom
    \/ MainSave
    \/ MainPowerOn
    \/ SavePrepare
    \/ FlashRangeErase
    \/ FlashRangeProgram
    \/ RestoreInterrupts
    \/ WaitRead
    \/ SampleAddress
    \/ SetDirOut
    \/ PutAll
    \/ SetDirIn
    \/ NoSelect
    \/ SelectRom
    \/ SelectRomFault

\* the addresses the console reads in the liveness runs: ordinary menu data,
\* the gestures for game 1 and for index 0, the last address of the window
\* (index 255) and an address above the 16 KiB of game 1
LiveAddrs == {0, CMD_FIRST, CMD_FIRST + 1, CMD_LAST, 16385}

LiveInit == Init /\ busAddr \in LiveAddrs /\ flash = ErasedPage

\* the console changes /RD and the address lines
LiveBusChange ==
    /\ BusChange
    /\ busAddr' \in LiveAddrs

\* the core keeps executing: a program step that can be taken is taken, and
\* the erase and the program of the flash come to an end; the power stays on
LiveSpec == LiveInit /\ [][ProgramStep \/ LiveBusChange]_vars /\ WF_vars(ProgramStep)

C20_StrobeServed ==
    (AfterLoopEntry /\ rd = 0) ~> (pc = "dirin" \/ rd = 1)

\* as long as no select gesture has faulted, a /RD that is low is followed by
\* a driven byte, unless the console raises /RD first
C20_ServedUnlessFaulted ==
    (AfterLoopEntry /\ rd = 0) ~> (pc = "dirin" \/ rd = 1 \/ pc = "fault")

====
